---- MODULE Spec2Model ----
(***************************************************************************)
(* A model of the cost-tracking and item-caching subsystem of noted        *)
(* (src/src/cost_tracker.py): the persisted cost log with its rolling      *)
(* retention, and the persisted item cache with its substring lookup;      *)
(* of the processor that calls the language model, records the call and    *)
(* parses the response (src/src/claude_interface.py); and of the token     *)
(* estimate and price table of the cost optimizer (src/cost_optimizer.py). *)
(*                                                                         *)
(* Abstractions, stated once:                                              *)
(*  - money is an exact number of units of 1e-7 dollar; the code uses     *)
(*    binary floating point, whose representation error is not modelled;   *)
(*  - a text is modelled by its length where only len(text) is read, and   *)
(*    by its sequence of characters where its content is read;             *)
(*  - datetime.now() is a logical clock that advances with every call;     *)
(*  - a persisted document is the whole content of its file; writing a     *)
(*    file never fails.                                                    *)
(***************************************************************************)
EXTENDS Integers, Sequences, FiniteSets, TLC

VARIABLES
    logFile,      \* content of cost_log.json
    trackerUp,    \* whether a CostTracker has been constructed
    clock,        \* datetime.now()
    lres,         \* outcome of the last CostTracker operation
    history,      \* ghost: every record log_api_call has appended, in order
    epoch,        \* ghost: Len(history) when the log last restarted from empty
    workload,     \* the caller's workload in the single-caller run
    cacheFile,    \* content of item_cache.json
    cacheUp,      \* whether an ItemCache has been constructed
    cres,         \* outcome of the last ItemCache operation
    pure,         \* argument and result of the last function applied
    proc,         \* outcome of the last process_note_to_shopping_list
    conc          \* the callers of log_api_call that run side by side

vars == <<logFile, trackerUp, clock, lres, history, epoch, workload,
          cacheFile, cacheUp, cres, pure, proc, conc>>

logVars == <<logFile, trackerUp, clock, lres, history, epoch, workload>>

cacheVars == <<cacheFile, cacheUp, cres>>

restVars == <<pure, proc, conc>>

(***************************************************************************)
(* Bounds of the model.                                                    *)
(***************************************************************************)
MaxCalls == 4

MaxRun == 103

MaxList == 2

MaxText == 6

MaxNotes == 2

MaxLen == 9

MaxPriced == 2

MaxConc == 3

MaxTimed == 3

MaxPipeline == 2

(***************************************************************************)
(* Program constants.                                                      *)
(***************************************************************************)
CHARS_PER_TOKEN == 4

PRICE_INPUT == 3

PRICE_OUTPUT == 15

UNITS_PER_TOKEN_DOLLAR == 10

MAX_KEPT_CALLS == 100

RECENT_CALLS == 10

ROUND6_STEP == 10

ROUND4_STEP == 1000

ROUND2_STEP == 100000

DAILY_CALLS == 30

MONTHLY_CALLS == 900

PRINTED_CALLS == 5

SYSTEM_PROMPT_LEN == 343

PROMPT_SEPARATOR_LEN == 2

TEXT_HEADER_LEN == 14

OPTIMIZER_CHARS_PER_TOKEN == 4

OPTIMIZER_UNITS == 10

(***************************************************************************)
(* Arithmetic helpers.                                                     *)
(***************************************************************************)
Max(a, b) == IF a >= b THEN a ELSE b

Min(a, b) == IF a <= b THEN a ELSE b

\* Python's round(): n/d rounded to the nearest integer, ties to even.
RoundHalfEven(n, d) ==
    LET q == n \div d
        r == n % d
    IN  IF 2 * r < d THEN q
        ELSE IF 2 * r > d THEN q + 1
        ELSE IF q % 2 = 0 THEN q ELSE q + 1

\* round(x, 6), round(x, 4), round(x, 2) of an amount of x/d units.
Round6(x, d) == RoundHalfEven(x, d * ROUND6_STEP) * ROUND6_STEP

Round4(x, d) == RoundHalfEven(x, d * ROUND4_STEP) * ROUND4_STEP

Round2(x, d) == RoundHalfEven(x, d * ROUND2_STEP) * ROUND2_STEP

\* s[-n:] of Python.
LastN(s, n) == IF Len(s) > n THEN SubSeq(s, Len(s) - n + 1, Len(s)) ELSE s

(***************************************************************************)
(* CostTracker: the persisted cost log.                                    *)
(***************************************************************************)
LogKeys == {"total_calls", "total_cost", "calls"}

\* A cost_log.json: absent, not JSON, JSON that is no object, or a JSON
\* object holding some of the three keys of a log.
LogDoc(kind, keys, n, cost, calls) ==
    [kind |-> kind, keys |-> keys, total_calls |-> n, total_cost |-> cost,
     calls |-> calls]

EmptyLog == LogDoc("object", LogKeys, 0, 0, <<>>)

AbsentLog == LogDoc("absent", {}, 0, 0, <<>>)

NotJsonLog == LogDoc("notjson", {}, 0, 0, <<>>)

NonObjectLog == LogDoc("nonobject", {}, 0, 0, <<>>)

IsLog(f) == f.kind = "object" /\ f.keys = LogKeys

\* load_log: the bare except turns a missing file and a JSON decode error
\* into the empty log; any other JSON value is returned as it is.
LoadLog(f) == IF f.kind \in {"absent", "notjson"} THEN EmptyLog ELSE f

LoadedDefault(f) == f.kind \in {"absent", "notjson"}

\* An estimate without the floor of one token.
estimate_tokens_NoFloor(len) == len \div CHARS_PER_TOKEN

\* estimate_tokens: max(1, len(text) // 4)
estimate_tokens(len) == Max(1, len \div CHARS_PER_TOKEN)

\* A calculator that rounds its result to 4 decimal places.
calculate_cost_Rounded(input_tokens, output_tokens) ==
    Round4(input_tokens * UNITS_PER_TOKEN_DOLLAR * PRICE_INPUT
               + output_tokens * UNITS_PER_TOKEN_DOLLAR * PRICE_OUTPUT, 1)

\* calculate_cost, in units: tokens/1e6 * price dollars.
calculate_cost(input_tokens, output_tokens) ==
    input_tokens * UNITS_PER_TOKEN_DOLLAR * PRICE_INPUT
        + output_tokens * UNITS_PER_TOKEN_DOLLAR * PRICE_OUTPUT

\* The optional metadata argument: << >> is None, <<m>> is the mapping m
\* (a set of <<key, value>> pairs).  "metadata or {}".
MetadataOrEmpty(meta) == IF meta = << >> THEN {} ELSE meta[1]

\* call_data of log_api_call.
CallData(c, now) ==
    LET input_tokens == estimate_tokens(c.input_len)
        output_tokens == estimate_tokens(c.output_len)
    IN  [timestamp |-> now,
         note_id |-> c.note_id,
         input_tokens |-> input_tokens,
         output_tokens |-> output_tokens,
         total_tokens |-> input_tokens + output_tokens,
         cost |-> Round6(calculate_cost(input_tokens, output_tokens), 1),
         metadata |-> MetadataOrEmpty(c.metadata)]

\* A retention that keeps the oldest records instead of the newest.
TruncateCalls_KeepOldest(calls) ==
    IF Len(calls) > MAX_KEPT_CALLS THEN SubSeq(calls, 1, MAX_KEPT_CALLS)
    ELSE calls

\* "Keep only last 100 calls".
TruncateCalls(calls) ==
    IF Len(calls) > MAX_KEPT_CALLS THEN LastN(calls, MAX_KEPT_CALLS) ELSE calls

\* An update whose counter follows the retained records.
UpdatedLog_CountRetained(log_data, call_data, cost) ==
    [log_data EXCEPT !.total_calls = Len(TruncateCalls(Append(log_data.calls, call_data))),
                     !.total_cost = @ + cost,
                     !.calls = TruncateCalls(Append(@, call_data))]

\* An update that stores the cost of the call as the total.
UpdatedLog_OverwritesCost(log_data, call_data, cost) ==
    [log_data EXCEPT !.total_calls = @ + 1,
                     !.total_cost = cost,
                     !.calls = TruncateCalls(Append(@, call_data))]

\* The update of log_api_call on the loaded document.
UpdatedLog(log_data, call_data, cost) ==
    [log_data EXCEPT !.total_calls = @ + 1,
                     !.total_cost = @ + cost,
                     !.calls = TruncateCalls(Append(@, call_data))]

\* log_data["total_calls"] += 1 and the two lines after it raise (KeyError,
\* TypeError) on a loaded value that is no object with the three keys.
UpdateRaises(log_data) == ~IsLog(log_data)

IdleRes == [op |-> "none"]

\* ensure_log_file, run by the constructor.
NewCostTracker ==
    /\ logFile' = IF logFile.kind = "absent" THEN EmptyLog ELSE logFile
    /\ epoch' = IF logFile.kind = "absent" THEN Len(history) ELSE epoch
    /\ trackerUp' = TRUE
    /\ lres' = [op |-> "init", before |-> logFile]
    /\ UNCHANGED <<clock, history, workload, cacheVars, restVars>>

\* log_api_call(input_text, output_text, note_id, metadata), as it acts on
\* the log, the clock and the outcome.
LogApiCallBody(c) ==
    LET call_data == CallData(c, clock)
        cost == calculate_cost(call_data.input_tokens, call_data.output_tokens)
        log_data == LoadLog(logFile)
    IN  /\ trackerUp
        /\ clock' = clock + 1
        /\ IF UpdateRaises(log_data)
           THEN /\ lres' = [op |-> "log_api_call", before |-> logFile,
                            raised |-> TRUE, input |-> c]
                /\ UNCHANGED <<logFile, history, epoch>>
           ELSE /\ logFile' = UpdatedLog(log_data, call_data, cost)
                /\ history' = Append(history, call_data)
                /\ epoch' = IF LoadedDefault(logFile) THEN Len(history)
                            ELSE epoch
                /\ lres' = [op |-> "log_api_call", before |-> logFile,
                            raised |-> FALSE, input |-> c, ret |-> call_data]

\* log_api_call called on its own.
LogApiCall(c) ==
    /\ LogApiCallBody(c)
    /\ UNCHANGED <<trackerUp, workload, cacheVars, restVars>>

\* The value get_stats returns.  The early return carries no estimates.
ZeroStats ==
    [total_calls |-> 0, total_cost |-> 0, average_cost |-> 0,
     recent_calls |-> << >>, has_estimates |-> FALSE,
     daily_estimate |-> 0, monthly_estimate |-> 0]

\* Statistics whose average is taken over the recent records.
FullStats_AverageOverRecent(log_data) ==
    [total_calls |-> log_data.total_calls,
     total_cost |-> Round4(log_data.total_cost, 1),
     average_cost |->
         Round4(log_data.total_cost,
                Len(LastN(log_data.calls, RECENT_CALLS))),
     recent_calls |-> LastN(log_data.calls, RECENT_CALLS),
     has_estimates |-> TRUE,
     daily_estimate |->
         Round2(log_data.total_cost * DAILY_CALLS, log_data.total_calls),
     monthly_estimate |->
         Round2(log_data.total_cost * MONTHLY_CALLS, log_data.total_calls)]

FullStats(log_data) ==
    [total_calls |-> log_data.total_calls,
     total_cost |-> Round4(log_data.total_cost, 1),
     average_cost |-> Round4(log_data.total_cost, log_data.total_calls),
     recent_calls |-> LastN(log_data.calls, RECENT_CALLS),
     has_estimates |-> TRUE,
     daily_estimate |->
         Round2(log_data.total_cost * DAILY_CALLS, log_data.total_calls),
     monthly_estimate |->
         Round2(log_data.total_cost * MONTHLY_CALLS, log_data.total_calls)]

\* get_stats raises on a loaded value without "calls", on one with records
\* but without the totals, and on a division by a zero total_calls.
StatsRaises(log_data) ==
    \/ log_data.kind # "object"
    \/ "calls" \notin log_data.keys
    \/ /\ log_data.calls # << >>
       /\ \/ ~IsLog(log_data)
          \/ log_data.total_calls = 0

StatsOf(log_data) ==
    IF log_data.calls = << >> THEN ZeroStats ELSE FullStats(log_data)

GetStats ==
    LET log_data == LoadLog(logFile)
    IN  /\ trackerUp
        /\ IF StatsRaises(log_data)
           THEN lres' = [op |-> "get_stats", before |-> logFile,
                         raised |-> TRUE]
           ELSE lres' = [op |-> "get_stats", before |-> logFile,
                         raised |-> FALSE, ret |-> StatsOf(log_data)]
        /\ UNCHANGED <<logFile, trackerUp, clock, history, epoch, workload,
                       cacheVars, restVars>>

\* print_stats: get_stats, then the five figures, where reading the
\* estimates raises KeyError on a result without them, then the last
\* PRINTED_CALLS of the recent records.
PrintStats ==
    LET log_data == LoadLog(logFile)
        raises == StatsRaises(log_data) \/ ~StatsOf(log_data).has_estimates
    IN  /\ trackerUp
        /\ IF raises
           THEN lres' = [op |-> "print_stats", before |-> logFile,
                         raised |-> TRUE]
           ELSE lres' = [op |-> "print_stats", before |-> logFile,
                         raised |-> FALSE,
                         shown |-> LastN(StatsOf(log_data).recent_calls,
                                         PRINTED_CALLS)]
        /\ UNCHANGED <<logFile, trackerUp, clock, history, epoch, workload,
                       cacheVars, restVars>>

\* The environment: the file is removed, overwritten with text that is not
\* JSON, or overwritten with JSON that is not a log document.
DeleteLogFile ==
    /\ logFile.kind # "absent"
    /\ logFile' = AbsentLog
    /\ lres' = IdleRes
    /\ UNCHANGED <<trackerUp, clock, history, epoch, workload, cacheVars,
                   restVars>>

CorruptLogFile ==
    /\ logFile.kind # "notjson"
    /\ logFile' = NotJsonLog
    /\ lres' = IdleRes
    /\ UNCHANGED <<trackerUp, clock, history, epoch, workload, cacheVars,
                   restVars>>

MalformedLogs ==
    {NonObjectLog}
        \cup {LogDoc("object", keys, 0, 0, <<>>) : keys \in SUBSET LogKeys \ {LogKeys}}

MalformLogFile(doc) ==
    /\ logFile # doc
    /\ logFile' = doc
    /\ lres' = IdleRes
    /\ UNCHANGED <<trackerUp, clock, history, epoch, workload, cacheVars,
                   restVars>>

(***************************************************************************)
(* Inputs of log_api_call.                                                 *)
(***************************************************************************)
ModelMeta == {<<"model", "claude-3-sonnet-20240229">>}

Call(input_len, output_len, note_id, metadata) ==
    [input_len |-> input_len, output_len |-> output_len, note_id |-> note_id,
     metadata |-> metadata]

CallInputs ==
    {Call(0, 0, "unknown", << >>),
     Call(9, 3, "note-1", <<ModelMeta>>),
     Call(4, 17, "note-2", <<{}>>)}

\* The single caller's workload: call number k has texts whose lengths walk
\* through 0..79 from a start and with a stride chosen once.
Workloads ==
    {[in0 |-> 0, in_step |-> 0, out0 |-> 0, out_step |-> 0],
     [in0 |-> 0, in_step |-> 7, out0 |-> 5, out_step |-> 11],
     [in0 |-> 16, in_step |-> 13, out0 |-> 3, out_step |-> 4]}

WorkloadCall(w, k) ==
    Call((w.in0 + k * w.in_step) % 80, (w.out0 + k * w.out_step) % 80,
         IF k % 3 = 0 THEN "unknown" ELSE "note-1",
         IF k % 2 = 0 THEN << >> ELSE <<ModelMeta>>)

(***************************************************************************)
(* ItemCache: the persisted item cache.                                    *)
(*                                                                         *)
(* An item name is its sequence of characters.  A JSON object is the       *)
(* sequence of its <<key, value>> entries in insertion order, which is the *)
(* order json.load, dict iteration and json.dump all keep.                 *)
(***************************************************************************)
UpperCase ==
    <<"A", "B", "C", "D", "E", "F", "G", "H", "I", "J", "K", "L", "M",
      "N", "O", "P", "Q", "R", "S", "T", "U", "V", "W", "X", "Y", "Z">>

LowerCase ==
    <<"a", "b", "c", "d", "e", "f", "g", "h", "i", "j", "k", "l", "m",
      "n", "o", "p", "q", "r", "s", "t", "u", "v", "w", "x", "y", "z">>

ToLower ==
    [c \in {UpperCase[i] : i \in DOMAIN UpperCase} |->
        LowerCase[CHOOSE i \in DOMAIN UpperCase : UpperCase[i] = c]]

LowerChar(c) == IF c \in DOMAIN ToLower THEN ToLower[c] ELSE c

\* str.lower()
Lower(s) == [i \in 1..Len(s) |-> LowerChar(s[i])]

\* "a in b" of two Python strings.
IsSubstr(a, b) ==
    \E i \in 0..(Len(b) - Len(a)) : SubSeq(b, i + 1, i + Len(a)) = a

None == "<None>"

CachedItem(category, priority, estimated_cost, quantity) ==
    [category |-> category, priority |-> priority,
     estimated_cost |-> estimated_cost, quantity |-> quantity]

Entry(key, data) == [key |-> key, data |-> data]

CacheDoc(kind, entries) == [kind |-> kind, entries |-> entries]

AbsentCache == CacheDoc("absent", << >>)

NotJsonCache == CacheDoc("notjson", << >>)

NonObjectCache == CacheDoc("nonobject", << >>)

milk == <<"m", "i", "l", "k">>

bread == <<"b", "r", "e", "a", "d">>

eggs == <<"e", "g", "g", "s">>

\* common_items of ensure_cache_file.
MilkData == CachedItem("dairy", "high", "$4.99", "1 gallon")

BreadData == CachedItem("bakery", "high", "$3.49", "1 loaf")

EggsData == CachedItem("dairy", "high", "$3.99", "1 dozen")

common_items ==
    <<Entry(milk, MilkData), Entry(bread, BreadData), Entry(eggs, EggsData)>>

\* A constructor that seeds whenever the file holds no mapping.
EnsureCacheFile_Reseeds(f) ==
    IF f.kind # "map" THEN CacheDoc("map", common_items) ELSE f

\* ensure_cache_file: seeds the store when the file does not exist.
EnsureCacheFile(f) ==
    IF f.kind = "absent" THEN CacheDoc("map", common_items) ELSE f

\* load_cache: a missing file and a JSON decode error give the empty dict;
\* any other JSON value is returned as it is.
LoadCache(f) ==
    IF f.kind \in {"absent", "notjson"} THEN CacheDoc("map", << >>) ELSE f

Keys(entries) == {entries[i].key : i \in DOMAIN entries}

\* cache[key], for a key of the dict.
Lookup(entries, key) ==
    entries[CHOOSE i \in DOMAIN entries : entries[i].key = key].data

\* A key stored as it was given.
CacheKey_AsGiven(item_name) == item_name

\* The key add_item stores under.
CacheKey(item_name) == Lower(item_name)

\* cache[key] = data: an existing key keeps its place.
DictSet(entries, key, data) ==
    IF key \in Keys(entries)
    THEN [i \in DOMAIN entries |->
            IF entries[i].key = key THEN Entry(key, data) ELSE entries[i]]
    ELSE Append(entries, Entry(key, data))

\* A lookup that only finds keys contained in the query.
Matches_KeyInQueryOnly(cached_item, item_lower) ==
    IsSubstr(Lower(cached_item), item_lower)

\* The test of get_item's loop.
Matches(cached_item, item_lower) ==
    \/ IsSubstr(Lower(cached_item), item_lower)
    \/ IsSubstr(item_lower, Lower(cached_item))

\* The loop of get_item from entry i on: << >> is None, <<d>> is the data d.
RECURSIVE ScanCache(_, _, _)
ScanCache(entries, item_lower, i) ==
    IF i > Len(entries) THEN << >>
    ELSE IF Matches(entries[i].key, item_lower) THEN <<entries[i].data>>
    ELSE ScanCache(entries, item_lower, i + 1)

\* A lookup that tries the exact key before it scans.
GetItemOn_ExactFirst(entries, item_name) ==
    IF Lower(item_name) \in Keys(entries)
    THEN <<Lookup(entries, Lower(item_name))>>
    ELSE ScanCache(entries, Lower(item_name), 1)

\* get_item on the loaded cache.
GetItemOn(entries, item_name) == ScanCache(entries, Lower(item_name), 1)

\* An item of a shopping list: a JSON object in which any of the keys may
\* be missing; item.get(key) is then None, and item.get("item", "") is "".
Item(has_item, item, category, priority, estimated_cost, quantity) ==
    [has_item |-> has_item, item |-> item, category |-> category,
     priority |-> priority, estimated_cost |-> estimated_cost,
     quantity |-> quantity]

ItemName(item) == IF item.has_item THEN Lower(item.item) ELSE << >>

ItemEntryData(item) ==
    CachedItem(item.category, item.priority, item.estimated_cost,
               item.quantity)

\* An absorption that looks the name up the way get_item does.
Inserts_Fuzzy(entries, item) ==
    /\ ItemName(item) # << >>
    /\ \A i \in DOMAIN entries :
          ~IsSubstr(entries[i].key, ItemName(item))
              /\ ~IsSubstr(ItemName(item), entries[i].key)

\* An absorption that stores every named item, cached or not.
Inserts_NoMembership(entries, item) == ItemName(item) # << >>

\* Whether the loop body of extract_and_cache_items inserts the item.
Inserts(entries, item) ==
    ItemName(item) # << >> /\ ItemName(item) \notin Keys(entries)

\* The loop of extract_and_cache_items from item i on: the cache and the
\* flag "updated" after it.
RECURSIVE ExtractLoop(_, _, _, _)
ExtractLoop(entries, items, i, updated) ==
    IF i > Len(items) THEN [entries |-> entries, updated |-> updated]
    ELSE IF Inserts(entries, items[i])
    THEN ExtractLoop(
             DictSet(entries, ItemName(items[i]), ItemEntryData(items[i])),
             items, i + 1, TRUE)
    ELSE ExtractLoop(entries, items, i + 1, updated)

\* A payload: a JSON object with or without the key "shopping_list".
Payload(has_list, items) == [has_list |-> has_list, items |-> items]

\* On a JSON value that is no object (an array, null, a number) the loop
\* raises at the first item with a name: it cannot be assigned into.
ExtractRaises(cache, payload) ==
    /\ payload.has_list
    /\ cache.kind = "nonobject"
    /\ \E i \in DOMAIN payload.items : ItemName(payload.items[i]) # << >>

IdleCacheRes == [op |-> "none"]

\* ItemCache(cache_file)
NewItemCache ==
    /\ cacheFile' = EnsureCacheFile(cacheFile)
    /\ cacheUp' = TRUE
    /\ cres' = [op |-> "init", before |-> cacheFile]
    /\ UNCHANGED <<logVars, restVars>>

\* get_item(item_name).  "written" is the data an add_item of the same name
\* has stored in the call just before this one, << >> when there was none.
GetItem(item_name) ==
    LET cache == LoadCache(cacheFile)
        written == IF /\ cres.op = "add_item"
                      /\ ~cres.raised
                      /\ cres.name = item_name
                   THEN <<cres.data>>
                   ELSE << >>
    IN  /\ cacheUp
        /\ cres' = IF cache.kind = "nonobject"
                   THEN [op |-> "get_item", before |-> cacheFile,
                         name |-> item_name, raised |-> TRUE, writes |-> 0,
                         written |-> written]
                   ELSE [op |-> "get_item", before |-> cacheFile,
                         name |-> item_name, raised |-> FALSE, writes |-> 0,
                         written |-> written,
                         ret |-> GetItemOn(cache.entries, item_name)]
        /\ UNCHANGED <<cacheFile, cacheUp, logVars, restVars>>

AddItem(item_name, item_data) ==
    LET cache == LoadCache(cacheFile)
    IN  /\ cacheUp
        /\ IF cache.kind = "nonobject"
           THEN /\ cres' = [op |-> "add_item", before |-> cacheFile,
                            name |-> item_name, data |-> item_data,
                            raised |-> TRUE, writes |-> 0]
                /\ UNCHANGED cacheFile
           ELSE /\ cacheFile' =
                       CacheDoc("map",
                                DictSet(cache.entries, CacheKey(item_name),
                                        item_data))
                /\ cres' = [op |-> "add_item", before |-> cacheFile,
                            name |-> item_name, data |-> item_data,
                            raised |-> FALSE, writes |-> 1]
        /\ UNCHANGED <<cacheUp, logVars, restVars>>

\* extract_and_cache_items(shopping_list)
ExtractAndCacheItems(payload) ==
    LET cache == LoadCache(cacheFile)
        loop == ExtractLoop(cache.entries, payload.items, 1, FALSE)
        repeat == /\ cres.op = "extract"
                  /\ cres.payload = payload
                  /\ ~cres.raised
    IN  /\ cacheUp
        /\ IF ~payload.has_list
           THEN /\ cres' = [op |-> "extract", before |-> cacheFile,
                            payload |-> payload, raised |-> FALSE,
                            writes |-> 0, repeat |-> repeat]
                /\ UNCHANGED cacheFile
           ELSE IF ExtractRaises(cache, payload)
           THEN /\ cres' = [op |-> "extract", before |-> cacheFile,
                            payload |-> payload, raised |-> TRUE,
                            writes |-> 0, repeat |-> repeat]
                /\ UNCHANGED cacheFile
           ELSE /\ cacheFile' = IF loop.updated
                                THEN CacheDoc("map", loop.entries)
                                ELSE cacheFile
                /\ cres' = [op |-> "extract", before |-> cacheFile,
                            payload |-> payload, raised |-> FALSE,
                            writes |-> IF loop.updated THEN 1 ELSE 0,
                            repeat |-> repeat]
        /\ UNCHANGED <<cacheUp, logVars, restVars>>

\* The environment: the file is removed, or overwritten with text that is
\* not JSON, or with JSON that is no object.
DeleteCacheFile ==
    /\ cacheFile.kind # "absent"
    /\ cacheFile' = AbsentCache
    /\ cres' = IdleCacheRes
    /\ UNCHANGED <<cacheUp, logVars, restVars>>

CorruptCacheFile(doc) ==
    /\ cacheFile # doc
    /\ cacheFile' = doc
    /\ cres' = IdleCacheRes
    /\ UNCHANGED <<cacheUp, logVars, restVars>>

(***************************************************************************)
(* Inputs of the ItemCache operations.                                     *)
(***************************************************************************)
Milk == <<"M", "i", "l", "k">>

organic_milk == <<"o", "r", "g", "a", "n", "i", "c", " ", "m", "i", "l", "k">>

egg == <<"e", "g", "g">>

xyz == <<"x", "y", "z">>

AddInputs ==
    {<<Milk, CachedItem("dairy", "low", "$2.00", "1 quart")>>,
     <<Milk, CachedItem("other", "medium", "$9.99", "2")>>,
     <<egg, CachedItem("dairy", "low", "$2.00", "1 quart")>>,
     <<xyz, CachedItem("other", "medium", "$9.99", "2")>>}

QueryNames == {milk, Milk, organic_milk, egg, xyz, << >>}

Items ==
    {Item(TRUE, Milk, "grocery", "medium", "$1.50", "3"),
     Item(TRUE, egg, "grocery", "medium", "$1.50", "3"),
     Item(TRUE, egg, "dairy", None, "$2.50", None),
     Item(FALSE, << >>, "grocery", "high", "$1.50", "3")}

ItemLists ==
    UNION {[1..n -> Items] : n \in 0..MaxList}

Payloads ==
    {Payload(FALSE, << >>)} \cup {Payload(TRUE, items) : items \in ItemLists}

CorruptCaches == {NotJsonCache, NonObjectCache}

(***************************************************************************)
(* ClaudeProcessor._parse_response (src/src/claude_interface.py).          *)
(*                                                                         *)
(* A response text is the sequence of its pieces: the characters "{", "}", *)
(* "1" and "x" (a letter of prose), and, each taken as one piece, a key    *)
(* with its colon ("a":, "shopping_list":, "error":), the string "none",   *)
(* and an array of items.  The JSON texts over these pieces are the number *)
(* 1, the string, the arrays, the object {} and the objects {key:v} for a  *)
(* JSON text v.  An array stands inside an object in every text of the     *)
(* model, so the braces within it are never the first or the last of the   *)
(* text.  Positions are counted from 0, as Python counts them.  The        *)
(* nesting limit of the decoder (the interpreter's recursion limit) is     *)
(* beyond the texts of the model.                                          *)
(***************************************************************************)
KEY_A == "\"a\":"

KEY_LIST == "\"shopping_list\":"

KEY_ERROR == "\"error\":"

STRING_NONE == "\"none\""

LIST_EMPTY == "[]"

LIST_EGG == "[{\"item\":\"egg\",\"priority\":\"high\"}]"

LIST_TWO ==
    "[{\"item\":\"Milk\",\"priority\":\"low\"},{\"priority\":\"medium\"}]"

\* The key a key piece holds.
KeyOf ==
    [piece \in {KEY_A, KEY_LIST, KEY_ERROR} |->
        CASE piece = KEY_A -> "a"
          [] piece = KEY_LIST -> "shopping_list"
          [] piece = KEY_ERROR -> "error"]

\* The items an array piece holds.
ItemsOfPiece ==
    [piece \in {LIST_EMPTY, LIST_EGG, LIST_TWO} |->
        CASE piece = LIST_EMPTY -> << >>
          [] piece = LIST_EGG ->
                <<Item(TRUE, <<"e", "g", "g">>, None, "high", None, None)>>
          [] piece = LIST_TWO ->
                <<Item(TRUE, <<"M", "i", "l", "k">>, None, "low", None, None),
                  Item(FALSE, << >>, None, "medium", None, None)>>]

Pieces == {"{", "}", KEY_A, "1", "x"}

Texts == UNION {[1..n -> Pieces] : n \in 0..MaxText}

\* str.find and str.rfind of a single character: -1 when it does not occur.
Find(text, ch) ==
    IF \A i \in DOMAIN text : text[i] # ch THEN -1
    ELSE (CHOOSE i \in DOMAIN text :
              text[i] = ch /\ \A j \in 1..(i - 1) : text[j] # ch) - 1

\* A search for the closing brace that stops at the first one.
RFind_First(text, ch) == Find(text, ch)

RFind(text, ch) ==
    IF \A i \in DOMAIN text : text[i] # ch THEN -1
    ELSE (CHOOSE i \in DOMAIN text :
              text[i] = ch /\ \A j \in (i + 1)..Len(text) : text[j] # ch) - 1

\* text[start:end] for 0 <= start and 0 <= end <= len(text).
Slice(text, start, end) ==
    IF start >= end THEN << >> ELSE SubSeq(text, start + 1, end)

\* JSON values as json.loads returns them: the number 1, a string, an array
\* of items, and objects, an object being the sequence of its members.
JNumber == [type |-> "number", members |-> << >>]

JString(chars) == [type |-> "string", members |-> <<chars>>]

JArray(items) == [type |-> "array", members |-> items]

JObject(members) == [type |-> "object", members |-> members]

Member(key, value) == [key |-> key, value |-> value]

NoValue == [ok |-> FALSE, value |-> JNumber, next |-> 0]

\* The decoder at position i (from 1) of s: the value that starts there and
\* the position after it.
RECURSIVE ScanValue(_, _)
ScanValue(s, i) ==
    IF i > Len(s) THEN NoValue
    ELSE IF s[i] = "1" THEN [ok |-> TRUE, value |-> JNumber, next |-> i + 1]
    ELSE IF s[i] = STRING_NONE
    THEN [ok |-> TRUE, value |-> JString("none"), next |-> i + 1]
    ELSE IF s[i] \in DOMAIN ItemsOfPiece
    THEN [ok |-> TRUE, value |-> JArray(ItemsOfPiece[s[i]]), next |-> i + 1]
    ELSE IF s[i] # "{" \/ i + 1 > Len(s) THEN NoValue
    ELSE IF s[i + 1] = "}"
    THEN [ok |-> TRUE, value |-> JObject(<< >>), next |-> i + 2]
    ELSE IF s[i + 1] \notin DOMAIN KeyOf THEN NoValue
    ELSE LET v == ScanValue(s, i + 2)
         IN  IF v.ok /\ v.next <= Len(s) /\ s[v.next] = "}"
             THEN [ok |-> TRUE,
                   value |-> JObject(<<Member(KeyOf[s[i + 1]], v.value)>>),
                   next |-> v.next + 1]
             ELSE NoValue

\* json.loads: the whole of s must be one JSON text.
JsonLoads(s) ==
    LET v == ScanValue(s, 1)
    IN  IF v.ok /\ v.next = Len(s) + 1
        THEN [ok |-> TRUE, value |-> v.value]
        ELSE [ok |-> FALSE, value |-> JNumber]

\* dict.get on a decoded object: << >> when the key is not there.
Get(value, key) ==
    LET hits == {i \in DOMAIN value.members : value.members[i].key = key}
    IN  IF hits = {} THEN << >>
        ELSE <<value.members[CHOOSE i \in hits : \A j \in hits : j <= i].value>>

\* The mapping _parse_response returns, by the keys a caller reads: what is
\* under "error" and under "raw_response" when it has them, and the decoded
\* JSON text when it is one.  << >> is "not there".
ParseSuccess(value) ==
    [error |-> Get(value, "error"), raw_response |-> << >>,
     json |-> <<value>>]

\* A failure value that carries the response without its prose.
ParseFailure_Stripped(response_text) ==
    [error |-> <<"Failed to parse response">>,
     raw_response |-> <<SelectSeq(response_text, LAMBDA ch : ch # "x")>>,
     json |-> << >>]

ParseFailure(response_text) ==
    [error |-> <<"Failed to parse response">>,
     raw_response |-> <<response_text>>,
     json |-> << >>]

parse_response(response_text) ==
    LET start_idx == Find(response_text, "{")
        end_idx == RFind(response_text, "}") + 1
        json_str == Slice(response_text, start_idx, end_idx)
    IN  IF start_idx = -1 \/ end_idx = 0 THEN ParseFailure(response_text)
        ELSE IF JsonLoads(json_str).ok
        THEN ParseSuccess(JsonLoads(json_str).value)
        ELSE ParseFailure(response_text)

\* _parse_response(response_text) on the text drawn at the start.
ParseResponse ==
    /\ pure.op = "input"
    /\ pure' = [op |-> "_parse_response", text |-> pure.text,
                raised |-> FALSE, ret |-> parse_response(pure.text)]
    /\ UNCHANGED <<logVars, cacheVars, proc, conc>>

(***************************************************************************)
(* ClaudeProcessor.analyze_item_timing.                                    *)
(***************************************************************************)
\* item.get("item"): << >> is None.
ItemGetItem(item) == IF item.has_item THEN <<item.item>> ELSE << >>

\* A timing that makes everything but high priority wait.
SuggestedTiming_OthersWait(priority) ==
    IF priority = "high" THEN "today" ELSE "next_week"

SuggestedTiming(priority) ==
    IF priority = "high" THEN "today"
    ELSE IF priority = "low" THEN "next_week"
    ELSE "this_week"

TimingReason(priority) ==
    IF priority = "high" THEN "High priority item"
    ELSE IF priority = "low" THEN "Low priority, can wait"
    ELSE "Standard timing"

Suggestion(item) ==
    [item |-> ItemGetItem(item),
     suggested_timing |-> SuggestedTiming(item.priority),
     reason |-> TimingReason(item.priority)]

analyze_item_timing(items) ==
    [timing_analysis |-> [i \in 1..Len(items) |-> Suggestion(items[i])],
     optimal_shopping_day |-> "Saturday",
     note |-> "Basic timing analysis - Phase 2 will add price and calendar "
                  \o "integration"]

\* analyze_item_timing(items) called on its own.
AnalyzeItemTiming(items) ==
    /\ pure' = [op |-> "analyze_item_timing", items |-> items,
                ret |-> analyze_item_timing(items)]
    /\ UNCHANGED <<logVars, cacheVars, proc, conc>>

(***************************************************************************)
(* Inputs of analyze_item_timing: priorities the code names, one it does   *)
(* not, one in another case and a missing one; items with and without a    *)
(* name.                                                                   *)
(***************************************************************************)
Priorities == {"high", "low", "medium", "urgent", "High", None}

TimedItems ==
    {Item(TRUE, <<"e", "g", "g">>, None, p, None, None) : p \in Priorities}
        \cup {Item(FALSE, << >>, None, "high", None, None)}

TimedLists == UNION {[1..n -> TimedItems] : n \in 0..MaxTimed}

(***************************************************************************)
(* ClaudeProcessor.process_note_to_shopping_list.                          *)
(*                                                                         *)
(* The language-model API is its answers: what it would answer to a first  *)
(* request and to a second one, each a text or an exception with its       *)
(* message.  A note carries a text and no images or links.                 *)
(***************************************************************************)
Note(has_id, id, text_len) ==
    [has_id |-> has_id, id |-> id, text_len |-> text_len]

Answer(text) == [ok |-> TRUE, text |-> text, message |-> ""]

Failure(message) == [ok |-> FALSE, text |-> << >>, message |-> message]

\* len(_format_note_content(note_content)): "Text content:\n" and the text,
\* or nothing for a note without text.
FormattedLen(note) ==
    IF note.text_len = 0 THEN 0 ELSE TEXT_HEADER_LEN + note.text_len

\* len(system_prompt + "\n\n" + user_prompt)
FullInputLen(note) ==
    SYSTEM_PROMPT_LEN + PROMPT_SEPARATOR_LEN + FormattedLen(note)

\* The number of characters of a piece.
PieceLen(piece) ==
    CASE piece = KEY_A -> 4
      [] piece = KEY_LIST -> 16
      [] piece = KEY_ERROR -> 8
      [] piece = STRING_NONE -> 6
      [] piece = LIST_EMPTY -> 2
      [] piece = LIST_EGG -> 34
      [] piece = LIST_TWO -> 56
      [] OTHER -> 1

\* len(response_text)
RECURSIVE TextLen(_)
TextLen(text) ==
    IF text = << >> THEN 0 ELSE PieceLen(Head(text)) + TextLen(Tail(text))

\* note_content.get("id", "unknown")
NoteId(note) == IF note.has_id THEN note.id ELSE "unknown"

\* A caller that asks again after a failed request.
Requests_RetryOnce(api) == IF api[1].ok THEN 1 ELSE 2

\* The requests one invocation makes: the one messages.create of the body.
Requests(api) == 1

\* {"error": f"Failed to process note: {str(e)}"}
ProcessError(message) ==
    [error |-> <<"Failed to process note: ", message>>,
     raw_response |-> << >>, json |-> << >>]

\* The call log_api_call gets from process_note_to_shopping_list.
ProcessCall(note, text) ==
    Call(FullInputLen(note), TextLen(text), NoteId(note), <<ModelMeta>>)

\* str(e) of the exception the update of a loaded document raises: the
\* KeyError of the first key read that the object lacks, the TypeError of
\* subscripting a JSON array.
UpdateErrorMessage(log_data) ==
    IF log_data.kind # "object"
    THEN "list indices must be integers or slices, not str"
    ELSE IF "total_calls" \notin log_data.keys THEN "'total_calls'"
    ELSE IF "total_cost" \notin log_data.keys THEN "'total_cost'"
    ELSE "'calls'"

\* What process_note_to_shopping_list returns: the error of the request,
\* the error of log_api_call, or the parse of the response.
ProcessResult(note, api) ==
    LET answer == api[Requests(api)]
    IN  IF ~answer.ok THEN ProcessError(answer.message)
        ELSE IF UpdateRaises(LoadLog(logFile))
        THEN ProcessError(UpdateErrorMessage(LoadLog(logFile)))
        ELSE parse_response(answer.text)

\* process_note_to_shopping_list as it acts on the cost log.
ProcessNoteBody(note, api) ==
    LET answer == api[Requests(api)]
    IN  /\ trackerUp
        /\ IF ~answer.ok
           THEN UNCHANGED <<logFile, clock, lres, history, epoch>>
           ELSE LogApiCallBody(ProcessCall(note, answer.text))

\* process_note_to_shopping_list(note_content) called on its own.
ProcessNote(note, api) ==
    /\ ProcessNoteBody(note, api)
    /\ proc' = [op |-> "process_note_to_shopping_list", note |-> note,
                api |-> api, requests |-> Requests(api), before |-> logFile,
                hist |-> Len(history), raised |-> FALSE,
                ret |-> ProcessResult(note, api)]
    /\ UNCHANGED <<trackerUp, workload, cacheVars, pure, conc>>

(***************************************************************************)
(* Inputs of process_note_to_shopping_list.                                *)
(***************************************************************************)
Notes == {Note(TRUE, "note-1", 20), Note(FALSE, "", 0)}

ListText == <<"{", KEY_A, "1", "}">>

ProseText == <<"x", "x">>

Answers ==
    {Answer(ListText), Answer(ProseText), Failure("Connection error.")}

Apis == [1..2 -> Answers]

(***************************************************************************)
(* NotesProcessor.process_note (src/src/notes_processor.py): the note is   *)
(* fetched, handed to process_note_to_shopping_list, and the mapping that  *)
(* comes back is given its timing analysis and its metadata.               *)
(***************************************************************************)
MOCK_TEXT_LEN == 193

\* fetch_note_from_mcp: the mock note, whatever the identifier.
fetch_note_from_mcp(note_id) == <<Note(TRUE, note_id, MOCK_TEXT_LEN)>>

\* bool(value) of a decoded JSON value.
Truthy(value) ==
    IF value.type = "number" THEN TRUE
    ELSE IF value.type = "string" THEN value.members # <<"">>
    ELSE value.members # << >>

\* shopping_list.get("shopping_list") is truthy.
HasList(result) ==
    /\ result.json # << >>
    /\ Get(result.json[1], "shopping_list") # << >>
    /\ Truthy(Get(result.json[1], "shopping_list")[1])

\* analyze_item_timing raises on a value that is no array of objects: a
\* number cannot be iterated, the characters of a string and the keys of an
\* object have no get.
TimingRaises(result) ==
    HasList(result) /\ Get(result.json[1], "shopping_list")[1].type # "array"

Metadata(note_id) ==
    [source_note_id |-> note_id, version |-> "1.0",
     phase |-> "1 - Basic Pipeline"]

\* The mapping process_note returns, by the keys a caller reads.
Returned(result, timing, metadata) ==
    [error |-> result.error, raw_response |-> result.raw_response,
     json |-> result.json, timing |-> timing, metadata |-> metadata]

\* {"error": f"Could not fetch note: {note_id}"}
FetchError(note_id) ==
    [error |-> <<"Could not fetch note: ", note_id>>,
     raw_response |-> << >>, json |-> << >>]

\* What process_note does with the mapping of process_note_to_shopping_list.
PipelineOutcome(note_id, result) ==
    IF result.error # << >>
    THEN [raised |-> FALSE, ret |-> Returned(result, << >>, << >>)]
    ELSE IF TimingRaises(result)
    THEN [raised |-> TRUE, ret |-> Returned(result, << >>, << >>)]
    ELSE [raised |-> FALSE,
          ret |-> Returned(
                      result,
                      IF HasList(result)
                      THEN <<analyze_item_timing(
                                 Get(result.json[1], "shopping_list")[1]
                                     .members)>>
                      ELSE << >>,
                      <<Metadata(note_id)>>)]

\* process_note(note_id)
PipelineNote(note_id, api) ==
    LET note_content == fetch_note_from_mcp(note_id)
        outcome(o) ==
            [op |-> "process_note", note_id |-> note_id, api |-> api,
             before |-> logFile, hist |-> Len(history),
             cache |-> cacheFile, raised |-> o.raised, ret |-> o.ret]
    IN  /\ trackerUp
        /\ IF note_content = << >>
           THEN /\ proc' = outcome([raised |-> FALSE,
                                    ret |-> Returned(FetchError(note_id),
                                                     << >>, << >>)])
                /\ UNCHANGED <<logFile, clock, lres, history, epoch>>
           ELSE /\ ProcessNoteBody(note_content[1], api)
                /\ proc' = outcome(PipelineOutcome(
                                       note_id,
                                       ProcessResult(note_content[1], api)))
        /\ UNCHANGED <<trackerUp, workload, cacheVars, pure, conc>>

(***************************************************************************)
(* Inputs of process_note: responses that hold a shopping list of one and  *)
(* of two items, an empty one, one that is a number, an object with the    *)
(* key "error", an empty object, a list between prose, and prose alone; a  *)
(* request that fails.                                                     *)
(***************************************************************************)
NoteIds == {"note-1", ""}

PipelineTexts ==
    {<<"{", KEY_LIST, LIST_EGG, "}">>,
     <<"{", KEY_LIST, LIST_TWO, "}">>,
     <<"{", KEY_LIST, LIST_EMPTY, "}">>,
     <<"{", KEY_LIST, "1", "}">>,
     <<"{", KEY_ERROR, STRING_NONE, "}">>,
     <<"{", "}">>,
     <<"x", "{", KEY_LIST, LIST_EGG, "}", "x">>,
     ProseText}

PipelineAnswers ==
    {Answer(text) : text \in PipelineTexts}
        \cup {Failure("Connection error.")}

PipelineApis == {<<answer, answer>> : answer \in PipelineAnswers}

(***************************************************************************)
(* The cost optimizer (src/cost_optimizer.py): its own token estimate and  *)
(* its own price table.  Its prices go down to 0.00000025 dollar a token,  *)
(* so its amounts are in units of 1e-8 dollar, OPTIMIZER_UNITS of them to  *)
(* one unit of the cost tracker.                                           *)
(***************************************************************************)
SONNET_4 == "claude-sonnet-4-20250514"

SONNET_3_5 == "claude-3-5-sonnet-20241022"

HAIKU_3 == "claude-3-haiku-20240307"

Pricing(input, output) == [input |-> input, output |-> output]

CLAUDE_PRICING ==
    [model \in {SONNET_4, SONNET_3_5, HAIKU_3} |->
        CASE model = SONNET_4 -> Pricing(1500, 7500)
          [] model = SONNET_3_5 -> Pricing(300, 1500)
          [] model = HAIKU_3 -> Pricing(25, 125)]

optimizer_estimate_tokens(len) == len \div OPTIMIZER_CHARS_PER_TOKEN

\* input_tokens * pricing["input"] + output_tokens * pricing["output"]
model_cost(model, input_tokens, output_tokens) ==
    input_tokens * CLAUDE_PRICING[model].input
        + output_tokens * CLAUDE_PRICING[model].output

\* The functions applied on their own: the two token estimates on a text of
\* a length, the calculator of the cost tracker and the price computation
\* of the cost optimizer on token counts.
EstimateTokens(len) ==
    /\ pure' = [op |-> "estimate_tokens", len |-> len,
                ret |-> estimate_tokens(len)]
    /\ UNCHANGED <<logVars, cacheVars, proc, conc>>

OptimizerEstimateTokens(len) ==
    /\ pure' = [op |-> "optimizer.estimate_tokens", len |-> len,
                ret |-> optimizer_estimate_tokens(len)]
    /\ UNCHANGED <<logVars, cacheVars, proc, conc>>

CalculateCost(input_tokens, output_tokens) ==
    /\ pure' = [op |-> "calculate_cost", input_tokens |-> input_tokens,
                output_tokens |-> output_tokens,
                ret |-> calculate_cost(input_tokens, output_tokens)]
    /\ UNCHANGED <<logVars, cacheVars, proc, conc>>

ModelCost(model, input_tokens, output_tokens) ==
    /\ pure' = [op |-> "model_cost", model |-> model,
                input_tokens |-> input_tokens,
                output_tokens |-> output_tokens,
                ret |-> model_cost(model, input_tokens, output_tokens)]
    /\ UNCHANGED <<logVars, cacheVars, proc, conc>>

(***************************************************************************)
(* Inputs of the functions.                                                *)
(***************************************************************************)
TextLens == 0..MaxLen

TokenCounts == {0, 1, 2, 500, 1000, 2000}

ModelIs(model) == {<<"model", model>>}

PricedCalls ==
    {Call(0, 0, "unknown", << >>),
     Call(4000, 8000, "note-1", <<ModelIs(SONNET_4)>>),
     Call(4000, 8000, "note-2", <<ModelIs(HAIKU_3)>>)}

(***************************************************************************)
(* log_api_call run by several callers, each a process with its own        *)
(* CostTracker over the one cost_log.json.  The call reads the file once,  *)
(* in load_log, and writes it once, in save_log; other callers run between *)
(* the two.                                                                *)
(***************************************************************************)
Callers == {1, 2}

IdleCaller == [pc |-> "idle"]

\* A save that reads the file again before it updates it.
LogDataAtSave_Reloaded(loaded, file) == LoadLog(file)

\* The document the save updates: log_data, as load_log returned it.
LogDataAtSave(loaded, file) == loaded

\* log_api_call up to and including log_data = self.load_log().
ConcLoad(p, c) ==
    /\ conc[p].pc = "idle"
    /\ clock' = clock + 1
    /\ conc' = [conc EXCEPT ![p] = [pc |-> "loaded", input |-> c,
                                    call_data |-> CallData(c, clock),
                                    log_data |-> LoadLog(logFile)]]
    /\ UNCHANGED <<logFile, trackerUp, lres, history, epoch, workload,
                   cacheVars, pure, proc>>

\* log_api_call from the update of log_data to save_log and the return.
ConcSave(p) ==
    LET call_data == conc[p].call_data
        cost == calculate_cost(call_data.input_tokens, call_data.output_tokens)
        log_data == LogDataAtSave(conc[p].log_data, logFile)
    IN  /\ conc[p].pc = "loaded"
        /\ IF UpdateRaises(log_data)
           THEN /\ lres' = [op |-> "log_api_call", before |-> logFile,
                            raised |-> TRUE, input |-> conc[p].input]
                /\ conc' = [conc EXCEPT ![p].pc = "raised"]
                /\ UNCHANGED <<logFile, history>>
           ELSE /\ logFile' = UpdatedLog(log_data, call_data, cost)
                /\ history' = Append(history, call_data)
                /\ lres' = [op |-> "log_api_call", before |-> logFile,
                            raised |-> FALSE, input |-> conc[p].input,
                            ret |-> call_data, caller |-> p,
                            loaded |-> conc[p].log_data]
                /\ conc' = [conc EXCEPT ![p].pc = "done"]
        /\ UNCHANGED <<trackerUp, clock, epoch, workload, cacheVars, pure,
                       proc>>

\* The caller goes on to its next call.
ConcNext(p) ==
    /\ conc[p].pc \in {"done", "raised"}
    /\ conc' = [conc EXCEPT ![p] = IdleCaller]
    /\ UNCHANGED <<logVars, cacheVars, pure, proc>>

(***************************************************************************)
(* The cost log under its environment: any calls, at most MaxCalls of      *)
(* them, with the file removed or overwritten at any time.                 *)
(***************************************************************************)
IdlePure == [op |-> "none"]

IdleProc == [op |-> "none"]

RestIdle ==
    /\ pure = IdlePure
    /\ proc = IdleProc
    /\ conc = << >>

CacheIdle ==
    /\ cacheFile = AbsentCache
    /\ cacheUp = FALSE
    /\ cres = IdleCacheRes

LogIdle ==
    /\ logFile = AbsentLog
    /\ trackerUp = FALSE
    /\ clock = 0
    /\ lres = IdleRes
    /\ history = << >>
    /\ epoch = 0
    /\ workload = CHOOSE w \in Workloads : TRUE

Init == LogIdle /\ CacheIdle /\ RestIdle

Next ==
    \/ NewCostTracker
    \/ \E c \in CallInputs : clock < MaxCalls /\ LogApiCall(c)
    \/ GetStats
    \/ PrintStats
    \/ DeleteLogFile
    \/ CorruptLogFile
    \/ \E doc \in MalformedLogs : MalformLogFile(doc)

Spec == Init /\ [][Next]_vars

(***************************************************************************)
(* The single caller: one CostTracker over a new log, MaxRun calls of the  *)
(* workload, get_stats at any time, nothing else touching the file.        *)
(***************************************************************************)
InitRun ==
    /\ logFile = EmptyLog
    /\ trackerUp = TRUE
    /\ clock = 0
    /\ lres = [op |-> "init", before |-> AbsentLog]
    /\ history = << >>
    /\ epoch = 0
    /\ workload \in Workloads
    /\ CacheIdle
    /\ RestIdle

NextRun ==
    \/ clock < MaxRun /\ LogApiCall(WorkloadCall(workload, clock))
    \/ GetStats
    \/ PrintStats

SpecRun == InitRun /\ [][NextRun]_vars

(***************************************************************************)
(* The item cache under its environment.                                   *)
(***************************************************************************)
InitCache == LogIdle /\ CacheIdle /\ RestIdle

NextCache ==
    \/ NewItemCache
    \/ \E n \in QueryNames : GetItem(n)
    \/ \E a \in AddInputs : AddItem(a[1], a[2])
    \/ \E p \in Payloads : ExtractAndCacheItems(p)
    \/ DeleteCacheFile
    \/ \E doc \in CorruptCaches : CorruptCacheFile(doc)

SpecCache == InitCache /\ [][NextCache]_vars

(***************************************************************************)
(* _parse_response on every response text of at most MaxText pieces.       *)
(***************************************************************************)
InitParse ==
    /\ LogIdle
    /\ CacheIdle
    /\ pure \in {[op |-> "input", text |-> t] : t \in Texts}
    /\ proc = IdleProc
    /\ conc = << >>

NextParse == ParseResponse

SpecParse == InitParse /\ [][NextParse]_vars

(***************************************************************************)
(* The processor under its environment: at most MaxNotes answered          *)
(* requests, with the cost log removed or overwritten at any time.         *)
(***************************************************************************)
InitProcess == LogIdle /\ CacheIdle /\ RestIdle

NextProcess ==
    \/ NewCostTracker
    \/ \E note \in Notes, api \in Apis :
          clock < MaxNotes /\ ProcessNote(note, api)
    \/ DeleteLogFile
    \/ CorruptLogFile
    \/ \E doc \in MalformedLogs : MalformLogFile(doc)

SpecProcess == InitProcess /\ [][NextProcess]_vars

(***************************************************************************)
(* The functions on their inputs, and at most MaxPriced calls recorded by  *)
(* one CostTracker.                                                        *)
(***************************************************************************)
InitCost == LogIdle /\ CacheIdle /\ RestIdle

NextCost ==
    \/ \E len \in TextLens : EstimateTokens(len)
    \/ \E len \in TextLens : OptimizerEstimateTokens(len)
    \/ \E i, o \in TokenCounts : CalculateCost(i, o)
    \/ \E model \in DOMAIN CLAUDE_PRICING, i, o \in TokenCounts :
          ModelCost(model, i, o)
    \/ NewCostTracker
    \/ \E c \in PricedCalls : clock < MaxPriced /\ LogApiCall(c)

SpecCost == InitCost /\ [][NextCost]_vars

(***************************************************************************)
(* Two callers over a new log, at most MaxConc calls between them, their   *)
(* loads and saves in any order.                                           *)
(***************************************************************************)
InitConc ==
    /\ logFile = EmptyLog
    /\ trackerUp = TRUE
    /\ clock = 0
    /\ lres = [op |-> "init", before |-> AbsentLog]
    /\ history = << >>
    /\ epoch = 0
    /\ workload = CHOOSE w \in Workloads : TRUE
    /\ CacheIdle
    /\ pure = IdlePure
    /\ proc = IdleProc
    /\ conc = [p \in Callers |-> IdleCaller]

NextConc ==
    \/ \E p \in Callers, c \in CallInputs : clock < MaxConc /\ ConcLoad(p, c)
    \/ \E p \in Callers : ConcSave(p)
    \/ \E p \in Callers : ConcNext(p)

SpecConc == InitConc /\ [][NextConc]_vars

(***************************************************************************)
(* analyze_item_timing on every list of at most MaxTimed items.            *)
(***************************************************************************)
InitTiming == LogIdle /\ CacheIdle /\ RestIdle

NextTiming == \E items \in TimedLists : AnalyzeItemTiming(items)

SpecTiming == InitTiming /\ [][NextTiming]_vars

(***************************************************************************)
(* The pipeline under its environment: at most MaxPipeline notes processed *)
(* by one NotesProcessor, beside an ItemCache on its file; the cost log    *)
(* may be removed or overwritten at any time.                              *)
(***************************************************************************)
InitPipeline == LogIdle /\ CacheIdle /\ RestIdle

NextPipeline ==
    \/ NewCostTracker
    \/ NewItemCache
    \/ \E note_id \in NoteIds, api \in PipelineApis :
          clock < MaxPipeline /\ PipelineNote(note_id, api)
    \/ DeleteLogFile
    \/ CorruptLogFile
    \/ \E doc \in MalformedLogs : MalformLogFile(doc)

SpecPipeline == InitPipeline /\ [][NextPipeline]_vars

(***************************************************************************)
(* Claims about the cost log.                                              *)
(***************************************************************************)
RECURSIVE SumCost(_)
SumCost(records) ==
    IF records = << >> THEN 0
    ELSE records[1].cost + SumCost(Tail(records))

\* The last min(Len(s), n) elements of s, in order.
LastMin(s, n) == SubSeq(s, Len(s) - Min(Len(s), n) + 1, Len(s))

\* C1: from an empty log and with a single caller, after N calls of
\* log_api_call (clock counts them) the log holds total_calls = N, min(N, 100)
\* retained records and a total_cost that is the sum of the costs of all N
\* records, and get_stats reports total_calls = N: retention does not reduce
\* the counters.
C1_CountersSurviveRetention ==
    /\ IsLog(logFile)
    /\ Len(history) = clock
    /\ logFile.total_calls = clock
    /\ Len(logFile.calls) = Min(clock, 100)
    /\ logFile.total_cost = SumCost(history)
    /\ lres.op = "get_stats" =>
          /\ ~lres.raised
          /\ lres.ret.total_calls = clock
          /\ lres.ret.total_cost = Round4(SumCost(history), 1)

C1_Witness ==
    /\ clock > 100
    /\ lres.op = "get_stats"
    /\ Len(logFile.calls) = 100
    /\ lres.ret.total_calls = clock
    /\ \E i, j \in DOMAIN history : history[i].cost # history[j].cost

\* C2 as stated: whenever the persisted document is a log, total_calls is
\* the number of records ever appended and total_cost the sum of their
\* costs, whatever the constructors and the file's absences in between.
C2_TotalsCountEverAppended ==
    IsLog(logFile) =>
        /\ logFile.total_calls = Len(history)
        /\ logFile.total_cost = SumCost(history)

\* C2 as amended: whenever the persisted document is a log, total_calls is
\* the number of records appended since the log last restarted from empty (a
\* constructor found no file, or log_api_call loaded an absent or unreadable
\* file), and total_cost is the sum of the costs of those records; with no
\* restart that is every record ever appended.
C2_TotalsCountSinceRestart ==
    IsLog(logFile) =>
        /\ epoch <= Len(history)
        /\ logFile.total_calls = Len(history) - epoch
        /\ logFile.total_cost =
              SumCost(SubSeq(history, epoch + 1, Len(history)))

C2_Witness ==
    /\ IsLog(logFile)
    /\ lres.op = "log_api_call"
    /\ lres.before.kind = "notjson"
    /\ epoch > 0
    /\ logFile.total_calls = 1
    /\ Len(history) > 2

C3_Retained ==
    /\ IsLog(logFile)
    /\ logFile.calls = LastMin(history, 100)
    /\ (lres.op = "log_api_call" =>
           ~lres.raised /\ lres.ret = history[Len(history)])
    /\ (lres.op = "get_stats" =>
           ~lres.raised /\ lres.ret.recent_calls = LastMin(history, 10))

C3_Step ==
    \/ logFile'.calls = logFile.calls
    \/ /\ Len(logFile.calls) < 100
       /\ logFile'.calls = Append(logFile.calls, lres'.ret)
    \/ /\ Len(logFile.calls) = 100
       /\ logFile'.calls = Append(Tail(logFile.calls), lres'.ret)

\* C3: after any sequence of log_api_call on an initially empty log, the
\* retained records are exactly the last min(N, 100) records of the history
\* of returned records, in insertion order and unchanged; a step changes
\* the retained sequence only by appending the new record and, at 100
\* records, dropping the oldest; and get_stats' recent records are the last
\* min(N, 10) records of that history.
C3_RetainedIsRecentHistory == []C3_Retained /\ [][C3_Step]_vars

C3_Witness ==
    /\ clock > 101
    /\ lres.op = "get_stats"
    /\ Len(lres.ret.recent_calls) = 10
    /\ logFile.calls[1] = history[clock - 99]
    /\ logFile.calls[1] # history[1]

\* C4 as stated: whatever the document holds when log_api_call or get_stats
\* loads it - absent, not JSON, or JSON that is no well-formed log - the call
\* does not raise and behaves as on the empty log: get_stats returns the
\* zero statistics, log_api_call leaves a log of exactly the new record.
C4_ReadFailureNeverSurfaced ==
    (lres.op \in {"log_api_call", "get_stats"} /\ ~IsLog(lres.before)) =>
        /\ ~lres.raised
        /\ lres.op = "get_stats" => lres.ret = ZeroStats
        /\ lres.op = "log_api_call" =>
              /\ IsLog(logFile)
              /\ logFile.total_calls = 1
              /\ logFile.total_cost = lres.ret.cost
              /\ logFile.calls = <<lres.ret>>

(***************************************************************************)
(* Claims about the item cache.                                            *)
(***************************************************************************)
Seeded == CacheDoc("map", common_items)

\* The mapping an operation works on: the store's, or the empty mapping
\* when the file is absent or is not JSON.
MappingOf(f) == IF f.kind = "map" THEN f.entries ELSE << >>

HoldsMapping(f) == f.kind \in {"map", "absent", "notjson"}

First(indices) == CHOOSE i \in indices : \A j \in indices : i <= j

Last(indices) == CHOOSE i \in indices : \A j \in indices : j <= i

Without(entries, key) == SelectSeq(entries, LAMBDA e : e.key # key)

\* The lower-cased name of an item of a payload, empty when it has none.
NameOf(item) == IF item.has_item THEN Lower(item.item) ELSE << >>

ItemsOf(payload) == IF payload.has_list THEN payload.items ELSE << >>

\* C5: get_item lower-cases the name and returns the entry of the first
\* key, in insertion order, that is a substring of the query or has the
\* query as a substring, and None exactly when there is no such key; on the
\* seeded cache "organic milk" finds the milk entry and "xyz" finds nothing.
C5_GetItemFirstMatch ==
    (cres.op = "get_item" /\ HoldsMapping(cres.before)) =>
        LET m == MappingOf(cres.before)
            q == Lower(cres.name)
            hits == {i \in DOMAIN m :
                        IsSubstr(m[i].key, q) \/ IsSubstr(q, m[i].key)}
        IN  /\ ~cres.raised
            /\ cacheFile = cres.before
            /\ (hits = {}) <=> (cres.ret = << >>)
            /\ hits # {} => cres.ret = <<m[First(hits)].data>>
            /\ (cres.before = Seeded /\ cres.name = organic_milk) =>
                  cres.ret = <<MilkData>>
            /\ (cres.before = Seeded /\ cres.name = xyz) => cres.ret = << >>

C5_Witness ==
    /\ cres.op = "get_item"
    /\ cres.name = egg
    /\ cres.before.kind = "map"
    /\ {egg, eggs} \subseteq Keys(cres.before.entries)
    /\ Lookup(cres.before.entries, egg) # EggsData
    /\ cres.ret = <<EggsData>>

\* C6: add_item(name, data) leaves the persisted mapping with lower(name)
\* mapped to data and every other entry as it was, in one write; and in
\* every state every key of the persisted mapping is lower-case and occurs
\* once.
C6_AddItemSetsLowerKey ==
    /\ cacheFile.kind = "map" =>
          \A i, j \in DOMAIN cacheFile.entries :
              /\ cacheFile.entries[i].key = Lower(cacheFile.entries[i].key)
              /\ cacheFile.entries[i].key = cacheFile.entries[j].key => i = j
    /\ (cres.op = "add_item" /\ HoldsMapping(cres.before)) =>
          LET m == MappingOf(cres.before)
              k == Lower(cres.name)
          IN  /\ ~cres.raised
              /\ cres.writes = 1
              /\ cacheFile.kind = "map"
              /\ k \in Keys(cacheFile.entries)
              /\ Lookup(cacheFile.entries, k) = cres.data
              /\ Without(cacheFile.entries, k) = Without(m, k)

C6_Witness ==
    /\ cres.op = "add_item"
    /\ cres.name = Milk
    /\ cres.before.kind = "map"
    /\ milk \in Keys(cres.before.entries)
    /\ Lookup(cres.before.entries, milk) \notin {MilkData, cres.data}
    /\ Lookup(cacheFile.entries, milk) = cres.data
    /\ Len(cacheFile.entries) > 3

\* C7: extract_and_cache_items appends, in payload order, one entry built
\* from category/priority/estimated_cost/quantity for exactly the first
\* occurrence of each non-empty lower-cased name that is not a key of the
\* cache (exact membership), leaves the existing entries as they were, and
\* writes the store once when it inserted and not at all otherwise.
C7_AbsorbInsertsNewKeysOnce ==
    (cres.op = "extract" /\ HoldsMapping(cres.before)) =>
        LET m == MappingOf(cres.before)
            items == ItemsOf(cres.payload)
            fresh == {i \in DOMAIN items :
                         /\ NameOf(items[i]) # << >>
                         /\ NameOf(items[i]) \notin Keys(m)
                         /\ \A j \in 1..(i - 1) :
                               NameOf(items[j]) # NameOf(items[i])}
            rank(i) == Cardinality({j \in fresh : j <= i})
        IN  /\ ~cres.raised
            /\ cres.writes = IF fresh = {} THEN 0 ELSE 1
            /\ fresh = {} => cacheFile = cres.before
            /\ fresh # {} =>
                  /\ cacheFile.kind = "map"
                  /\ Len(cacheFile.entries) = Len(m) + Cardinality(fresh)
                  /\ SubSeq(cacheFile.entries, 1, Len(m)) = m
                  /\ \A i \in fresh :
                        cacheFile.entries[Len(m) + rank(i)] =
                            Entry(NameOf(items[i]),
                                  CachedItem(items[i].category,
                                             items[i].priority,
                                             items[i].estimated_cost,
                                             items[i].quantity))

C7_Witness ==
    /\ cres.op = "extract"
    /\ cres.before = Seeded
    /\ Len(cres.payload.items) = 2
    /\ cres.payload.items[1].item = egg
    /\ cres.payload.items[2].item = egg
    /\ cres.payload.items[1] # cres.payload.items[2]
    /\ cres.writes = 1
    /\ Len(cacheFile.entries) = 4
    /\ cacheFile.entries[4].data.priority = cres.payload.items[1].priority

\* C8: a second extract_and_cache_items with the same shopping list, right
\* after the first, leaves the cache as the first call left it, inserts
\* nothing and does not write the store.
C8_AbsorbTwiceIsAbsorbOnce ==
    (cres.op = "extract" /\ cres.repeat) =>
        /\ ~cres.raised
        /\ cacheFile = cres.before
        /\ cres.writes = 0

C8_Witness ==
    /\ cres.op = "extract"
    /\ cres.repeat
    /\ cacheFile.kind = "map"
    /\ \E i \in DOMAIN cres.payload.items :
          /\ NameOf(cres.payload.items[i]) = egg
          /\ egg \in Keys(cacheFile.entries)
          /\ Lookup(cacheFile.entries, egg).priority =
                cres.payload.items[i].priority

C9_NothingDeleted ==
    (cres.op \in {"add_item", "extract"} /\ HoldsMapping(cres.before)) =>
        Keys(MappingOf(cres.before)) \subseteq Keys(MappingOf(cacheFile))

C9_AddItemUpdates ==
    (cres.op = "add_item" /\ HoldsMapping(cres.before)) =>
        /\ Lower(cres.name) \in Keys(MappingOf(cacheFile))
        /\ Lookup(cacheFile.entries, Lower(cres.name)) = cres.data

ItemData(item) ==
    CachedItem(item.category, item.priority, item.estimated_cost,
               item.quantity)

\* C9 as stated: when an item whose lower-cased name is already a cache key
\* arrives again, through add_item or through extract_and_cache_items, the
\* entry afterwards holds the attributes of the item that arrived last, and
\* no entry is deleted.
C9_RecurringKeyUpdated ==
    /\ C9_NothingDeleted
    /\ C9_AddItemUpdates
    /\ (cres.op = "extract" /\ HoldsMapping(cres.before)) =>
          LET m == MappingOf(cres.before)
              items == ItemsOf(cres.payload)
          IN  \A i \in DOMAIN items :
                  NameOf(items[i]) \in Keys(m) =>
                      Lookup(MappingOf(cacheFile), NameOf(items[i])) =
                          ItemData(items[Last({j \in DOMAIN items :
                                        NameOf(items[j]) = NameOf(items[i])})])

\* C9 as amended: an entry is updated through add_item only (last write
\* wins); extract_and_cache_items leaves every entry whose key already
\* exists as it was, whatever the recurring item carries; and neither
\* operation deletes an entry of the mapping it loaded.
C9_OnlyAddItemUpdates ==
    /\ C9_NothingDeleted
    /\ C9_AddItemUpdates
    /\ (cres.op = "extract" /\ HoldsMapping(cres.before)) =>
          LET m == MappingOf(cres.before)
          IN  \A k \in Keys(m) :
                  /\ k \in Keys(MappingOf(cacheFile))
                  /\ Lookup(MappingOf(cacheFile), k) = Lookup(m, k)

C9_Witness ==
    /\ cres.op = "extract"
    /\ cres.before.kind = "map"
    /\ milk \in Keys(cres.before.entries)
    /\ \E i \in DOMAIN cres.payload.items :
          /\ NameOf(cres.payload.items[i]) = milk
          /\ ItemData(cres.payload.items[i]) # Lookup(cres.before.entries, milk)
    /\ Lookup(cacheFile.entries, milk) = Lookup(cres.before.entries, milk)

C10_ConstructorSeeds ==
    /\ (cres.op = "init" /\ cres.before.kind = "absent") => cacheFile = Seeded
    /\ (cres.op = "init" /\ cres.before.kind # "absent") =>
          cacheFile = cres.before

\* C10 as stated: a store that is absent is seeded with milk, bread and eggs
\* before any lookup is answered, so get_item never answers from an absent
\* store as from an empty one: it answers as on the seeded store; and
\* constructing an ItemCache over an existing store leaves it unchanged.
C10_NoLookupSeesAbsentStore ==
    /\ C10_ConstructorSeeds
    /\ (cres.op = "get_item" /\ cres.before.kind = "absent") =>
          /\ ~cres.raised
          /\ cres.ret = GetItemOn(common_items, cres.name)

\* C10 as amended: seeding is done by the constructor only: constructing an
\* ItemCache while the store is absent writes exactly milk, bread and eggs,
\* constructing it while the store exists leaves the store unchanged; a
\* get_item that finds the store absent (removed since the construction) is
\* answered not-found, as on the empty mapping, and does not seed the store.
C10_SeedingOnlyAtConstruction ==
    /\ C10_ConstructorSeeds
    /\ (cres.op = "get_item" /\ cres.before.kind = "absent") =>
          /\ ~cres.raised
          /\ cres.ret = << >>
          /\ cacheFile = AbsentCache

C10_Witness ==
    /\ cres.op = "get_item"
    /\ cacheUp
    /\ cres.before.kind = "absent"
    /\ cres.name = organic_milk
    /\ cres.ret = << >>

\* C11: when the persisted item cache is unreadable or corrupt at the time
\* of a call (absent, not JSON, or JSON that is no mapping), no ItemCache
\* operation raises and each behaves as on the empty mapping: get_item
\* answers not-found for every name and leaves the store alone, add_item
\* leaves a store holding exactly the entry it inserts, and
\* extract_and_cache_items leaves a store holding exactly the names it
\* inserts, or the store as it was when it inserts nothing.
C11_CorruptCacheActsEmpty ==
    (/\ cres.op \in {"get_item", "add_item", "extract"}
     /\ cres.before.kind \in {"absent", "notjson", "nonobject"}) =>
        /\ ~cres.raised
        /\ cres.op = "get_item" =>
              /\ cres.ret = << >>
              /\ cacheFile = cres.before
        /\ cres.op = "add_item" =>
              cacheFile =
                  CacheDoc("map", <<Entry(Lower(cres.name), cres.data)>>)
        /\ cres.op = "extract" =>
              LET items == ItemsOf(cres.payload)
                  names == {NameOf(items[i]) : i \in DOMAIN items} \ {<< >>}
              IN  IF names = {} THEN cacheFile = cres.before
                  ELSE /\ cacheFile.kind = "map"
                       /\ Keys(cacheFile.entries) = names
                       /\ Len(cacheFile.entries) = Cardinality(names)

\* The part of C11 that the code keeps: a store that is absent or is not
\* JSON is read as the empty mapping.
C11_UnparsableCacheActsEmpty ==
    (/\ cres.op \in {"get_item", "add_item", "extract"}
     /\ cres.before.kind \in {"absent", "notjson"}) =>
        C11_CorruptCacheActsEmpty

(***************************************************************************)
(* Claims about _parse_response.                                           *)
(***************************************************************************)
Opens(text) == {i \in DOMAIN text : text[i] = "{"}

Closes(text) == {i \in DOMAIN text : text[i] = "}"}

\* The pieces from the first "{" to the last "}" inclusive; empty when one
\* of the two is missing or the last "}" comes before the first "{".
Span(text) ==
    IF Opens(text) = {} \/ Closes(text) = {} THEN << >>
    ELSE IF Last(Closes(text)) < First(Opens(text)) THEN << >>
    ELSE SubSeq(text, First(Opens(text)), Last(Closes(text)))

HereYouGo == <<"x", "{", KEY_A, "1", "}", "x">>

\* C12: _parse_response succeeds exactly when the text has a "{" and a "}"
\* and the slice from the first "{" to the last "}" inclusive decodes as
\* JSON, and its result is then the decoding of exactly that slice, prose
\* around it ignored and no other span tried; 'x{"a":1}x' yields {"a":1}.
C12_ParsesFirstToLastBrace ==
    pure.op = "_parse_response" =>
        LET t == pure.text
            succeeds == pure.ret.error = << >>
        IN  /\ succeeds <=>
                  /\ Opens(t) # {}
                  /\ Closes(t) # {}
                  /\ JsonLoads(Span(t)).ok
            /\ succeeds => pure.ret.json = <<JsonLoads(Span(t)).value>>
            /\ t = HereYouGo =>
                  pure.ret.json = <<JObject(<<Member("a", JNumber)>>)>>

C12_Witness ==
    /\ pure.op = "_parse_response"
    /\ pure.text = <<"x", "{", KEY_A, "{", "}", "}">>
    /\ pure.ret.json = <<JObject(<<Member("a", JObject(<< >>))>>)>>

C14_FailedRequestIsFinal ==
    proc.op = "process_note_to_shopping_list" =>
        /\ proc.requests <= 1
        /\ ~proc.raised
        /\ ~proc.api[1].ok =>
              /\ proc.ret.error =
                    <<"Failed to process note: ", proc.api[1].message>>
              /\ proc.ret.json = << >>

C14_Witness ==
    /\ proc.op = "process_note_to_shopping_list"
    /\ ~proc.api[1].ok
    /\ proc.api[2] = Answer(ListText)
    /\ proc.ret.error # << >>
    /\ logFile = proc.before

(***************************************************************************)
(* Claims about get_stats and the functions of the cost tracker.           *)
(***************************************************************************)
\* C15: on every state of the cost log, the empty log included, get_stats
\* returns a result that holds total_calls, total_cost, average_cost, the
\* recent records and the daily and monthly estimates, and print_stats
\* completes.
C15_StatsCompleteOnEveryLog ==
    /\ lres.op = "get_stats" =>
          /\ ~lres.raised
          /\ lres.ret.has_estimates
    /\ lres.op = "print_stats" => ~lres.raised

\* What the code keeps of C15: on a log with a record, get_stats carries
\* the estimates and print_stats completes.
C15_StatsCompleteOnceRecorded ==
    (lres.op \in {"get_stats", "print_stats"} /\ lres.before.calls # << >>)
        => C15_StatsCompleteOnEveryLog

C16_EmptyIffNoCalls ==
    /\ IsLog(logFile)
    /\ (logFile.calls = << >>) <=> (logFile.total_calls = 0)

C16_StatsReportStored ==
    lres.op = "get_stats" =>
        /\ ~lres.raised
        /\ lres.ret.total_calls = lres.before.total_calls
        /\ lres.before.total_calls = 0 => lres.ret.average_cost = 0

\* C16 as stated: in every state reached from the empty log by
\* log_api_call, the retained records are empty exactly when total_calls is
\* 0; get_stats reports the stored total_calls, an average_cost equal to
\* total_cost / total_calls when total_calls > 0 and 0 when it is 0, and
\* never divides by zero.
C16_AverageIsQuotient ==
    /\ C16_EmptyIffNoCalls
    /\ C16_StatsReportStored
    /\ (lres.op = "get_stats" /\ lres.before.total_calls > 0) =>
          lres.ret.average_cost * lres.before.total_calls =
              lres.before.total_cost

\* C16 as amended: the same, with the average_cost that get_stats reports
\* being total_cost / total_calls rounded to 4 decimal places: the multiple
\* of 0.0001 nearest to the quotient.
C16_AverageIsRoundedQuotient ==
    /\ C16_EmptyIffNoCalls
    /\ C16_StatsReportStored
    /\ (lres.op = "get_stats" /\ lres.before.total_calls > 0) =>
          LET n == lres.before.total_calls
              off == lres.ret.average_cost * n - lres.before.total_cost
          IN  /\ lres.ret.average_cost % ROUND4_STEP = 0
              /\ 2 * off <= ROUND4_STEP * n
              /\ 2 * off >= -(ROUND4_STEP * n)

C16_Witness ==
    /\ lres.op = "get_stats"
    /\ lres.before.total_calls > MAX_KEPT_CALLS
    /\ lres.ret.average_cost > 0
    /\ lres.ret.average_cost * lres.before.total_calls
           # lres.before.total_cost

\* C17: every token estimate of the repository, the cost tracker's
\* estimate_tokens and the cost optimizer's, returns max(1, len(s) // 4)
\* for every string s, and so 1 for the empty string.
C17_EveryEstimateHasFloor ==
    pure.op \in {"estimate_tokens", "optimizer.estimate_tokens"} =>
        /\ pure.ret >= 1
        /\ pure.len < 4 => pure.ret = 1
        /\ pure.len >= 4 =>
              /\ 4 * pure.ret <= pure.len
              /\ pure.len < 4 * (pure.ret + 1)

\* What the code keeps of C17: the cost tracker's estimate has the floor.
C17_TrackerEstimateHasFloor ==
    pure.op = "estimate_tokens" => C17_EveryEstimateHasFloor

ThirtyThreeThousandths == 33000 * ROUND6_STEP

\* C18: for all token counts, calculate_cost returns 3 * in_tok + 15 *
\* out_tok millionths of a dollar, not rounded, so 0.033 dollar for (1000,
\* 2000); and the cost in the record log_api_call stores is that amount
\* for the record's token counts, rounded to 6 decimal places.
C18_CostIsExactThenRounded6 ==
    /\ pure.op = "calculate_cost" =>
          /\ pure.ret =
                (3 * pure.input_tokens + 15 * pure.output_tokens)
                    * ROUND6_STEP
          /\ (pure.input_tokens = 1000 /\ pure.output_tokens = 2000) =>
                pure.ret = ThirtyThreeThousandths
    /\ (lres.op = "log_api_call" /\ ~lres.raised) =>
          LET exact == (3 * lres.ret.input_tokens
                            + 15 * lres.ret.output_tokens) * ROUND6_STEP
              off == lres.ret.cost - exact
          IN  /\ lres.ret.cost % ROUND6_STEP = 0
              /\ 2 * off <= ROUND6_STEP
              /\ 2 * off >= -ROUND6_STEP

C18_Witness ==
    /\ pure.op = "calculate_cost"
    /\ pure.input_tokens = 1000
    /\ pure.output_tokens = 2000
    /\ lres.op = "log_api_call"
    /\ ~lres.raised
    /\ lres.ret.input_tokens = 1000
    /\ lres.ret.output_tokens = 2000
    /\ lres.ret.cost = pure.ret

ModelsOf(metadata) == {p[2] : p \in {q \in metadata : q[1] = "model"}}

\* C19: the cost of a call is computed with the pricing tier of the model
\* the caller selects, and the price tables agree on a model they both
\* define: for Sonnet 4 the cost optimizer's table gives the cost the cost
\* tracker's calculator gives, and a recorded call that names a priced
\* model costs what that model's tier gives for its token counts.
C19_TierSelectedAndAgreed ==
    /\ (pure.op = "model_cost" /\ pure.model = SONNET_4) =>
          pure.ret =
              OPTIMIZER_UNITS
                  * calculate_cost(pure.input_tokens, pure.output_tokens)
    /\ (lres.op = "log_api_call" /\ ~lres.raised) =>
          \A model \in ModelsOf(lres.ret.metadata) \cap DOMAIN CLAUDE_PRICING :
              OPTIMIZER_UNITS * lres.ret.cost =
                  model_cost(model, lres.ret.input_tokens,
                             lres.ret.output_tokens)

(***************************************************************************)
(* Claims about callers that run side by side.                             *)
(***************************************************************************)
\* C20: the read-modify-write of log_api_call is not atomic.  A save
\* installs the log its caller had loaded plus that caller's record,
\* whatever other callers saved since the load (last writer wins), so the
\* log never counts more calls than have completed and can count fewer: a
\* state is reached where two calls have completed, total_calls has grown
\* by 1 and one of the two records is retained.
C20_LastWriterWins ==
    /\ IsLog(logFile)
    /\ logFile.total_calls <= Len(history)
    /\ (lres.op = "log_api_call" /\ ~lres.raised) =>
          /\ logFile.total_calls = lres.loaded.total_calls + 1
          /\ logFile.total_cost = lres.loaded.total_cost + lres.ret.cost
          /\ logFile.calls =
                LastMin(Append(lres.loaded.calls, lres.ret), MAX_KEPT_CALLS)

C20_Witness ==
    /\ \A p \in Callers : conc[p].pc = "done"
    /\ conc[1].log_data = conc[2].log_data
    /\ conc[1].call_data # conc[2].call_data
    /\ logFile.total_calls = conc[1].log_data.total_calls + 1
    /\ Len(logFile.calls) = Len(conc[1].log_data.calls) + 1
    /\ Cardinality({p \in Callers :
                       \E i \in DOMAIN logFile.calls :
                           logFile.calls[i] = conc[p].call_data}) = 1
    /\ Len(history) = Len(conc[1].log_data.calls) + 2

(***************************************************************************)
(* Claims about analyze_item_timing.                                       *)
(***************************************************************************)
\* C23: analyze_item_timing returns exactly one suggestion per item, in the
\* order of the items, each naming its item; the suggested timing is
\* "today" for priority high, "next_week" for priority low and "this_week"
\* for every other item, whether its priority is medium, unknown or
\* missing.
C23_OneTimingPerItem ==
    pure.op = "analyze_item_timing" =>
        LET items == pure.items
            out == pure.ret.timing_analysis
        IN  /\ Len(out) = Len(items)
            /\ \A i \in DOMAIN items :
                  /\ out[i].item =
                        IF items[i].has_item THEN <<items[i].item>>
                        ELSE << >>
                  /\ items[i].priority = "high" =>
                        out[i].suggested_timing = "today"
                  /\ items[i].priority = "low" =>
                        out[i].suggested_timing = "next_week"
                  /\ items[i].priority \notin {"high", "low"} =>
                        out[i].suggested_timing = "this_week"

C23_Witness ==
    /\ pure.op = "analyze_item_timing"
    /\ Len(pure.items) = 3
    /\ pure.items[1].priority = "low"
    /\ pure.items[2].priority = None
    /\ pure.items[3].priority = "high"
    /\ ~pure.items[3].has_item
    /\ pure.ret.timing_analysis[1].suggested_timing = "next_week"
    /\ pure.ret.timing_analysis[2].suggested_timing = "this_week"
    /\ pure.ret.timing_analysis[3].suggested_timing = "today"
    /\ pure.ret.timing_analysis[3].item = << >>

\* C24: process_note_to_shopping_list appends exactly one cost record, for
\* the note of the invocation, when the request returned a text, and it
\* does so before the text is parsed, so also when the parse fails; it
\* appends no record when the request failed; and a text the request
\* returned is answered with its parse, whatever the cost-log document
\* holds.
C24_OneRecordPerAnswer ==
    proc.op = "process_note_to_shopping_list" =>
        /\ proc.api[1].ok =>
              /\ Len(history) = proc.hist + 1
              /\ history[Len(history)].note_id = NoteId(proc.note)
              /\ proc.ret = parse_response(proc.api[1].text)
        /\ ~proc.api[1].ok => Len(history) = proc.hist

\* What the code keeps of C24: all of it when the cost-log document is a
\* log, is absent or is not JSON.
C24_OneRecordOnSoundLog ==
    (/\ proc.op = "process_note_to_shopping_list"
     /\ ~UpdateRaises(LoadLog(proc.before))) => C24_OneRecordPerAnswer

(***************************************************************************)
(* Claims about the pipeline.                                              *)
(***************************************************************************)
\* The items process_note returned in a shopping list.
ReturnedItems(result) ==
    IF result.json # << >> /\ HasList(result)
    THEN Get(result.json[1], "shopping_list")[1].members
    ELSE << >>

\* The returned items have been absorbed: every one with a name is a key of
\* the cache file.
Absorbed(result, f) ==
    \A i \in DOMAIN ReturnedItems(result) :
        ItemName(ReturnedItems(result)[i]) # << >> =>
            ItemName(ReturnedItems(result)[i]) \in Keys(LoadCache(f).entries)

\* C21: once process_note has processed a note into a shopping list, the
\* item cache has absorbed the list: every item of the returned list whose
\* normalized name was not a cache key before is a key of the item cache
\* after the step.
C21_ListAbsorbedByCache ==
    [][(proc' # proc /\ proc'.op = "process_note" /\ ~proc'.raised)
           => Absorbed(proc'.ret, cacheFile')]_vars

\* C25: process_note returns a result; the result is an error result, with
\* neither metadata nor timing, only when the fetch, the request or the
\* parse failed; and every response whose embedded JSON was decoded comes
\* back with metadata that names the requested note, and with a timing
\* analysis exactly when its shopping_list is not empty.
Decoded(text) == parse_response(text).json # << >>

C25_ErrorOnlyOnFailure ==
    proc.op = "process_note" =>
        LET answer == proc.api[1]
        IN  /\ ~proc.raised
            /\ proc.ret.error # << >> =>
                  /\ ~answer.ok \/ ~Decoded(answer.text)
                  /\ proc.ret.metadata = << >>
                  /\ proc.ret.timing = << >>
            /\ (answer.ok /\ Decoded(answer.text)) =>
                  /\ proc.ret.metadata # << >>
                  /\ proc.ret.metadata[1].source_note_id = proc.note_id
                  /\ proc.ret.timing # << >> <=> HasList(proc.ret)

\* What the code keeps of C25: all of it when the cost log can be updated
\* and the decoded object has no key "error" and no shopping_list other
\* than an array.
C25_ErrorOnlyOnFailureOnSoundInput ==
    (/\ proc.op = "process_note"
     /\ ~UpdateRaises(LoadLog(proc.before))
     /\ (proc.api[1].ok /\ Decoded(proc.api[1].text)) =>
            parse_response(proc.api[1].text).error = << >>
     /\ ~TimingRaises(proc.ret)) => C25_ErrorOnlyOnFailure

\* The record r is what log_api_call makes of the call c.
WellFormedRecord(r, c) ==
    /\ r.input_tokens >= 1
    /\ r.output_tokens >= 1
    /\ r.total_tokens = r.input_tokens + r.output_tokens
    /\ r.cost >= 0
    /\ r.cost = Round6(calculate_cost(r.input_tokens, r.output_tokens), 1)
    /\ r.note_id = c.note_id
    /\ r.metadata = IF c.metadata = << >> THEN {} ELSE c.metadata[1]

\* C22: every record log_api_call creates, for any input and output text
\* and for empty texts too, has an input and an output token estimate of at
\* least 1, total_tokens equal to their sum, a cost that is not negative
\* and is the calculated cost of the two estimates rounded to 6 places, the
\* note identifier it was given and the metadata it was given, the empty
\* mapping when it was given none; and it is the record the log holds last.
C22_RecordWellFormed ==
    (lres.op = "log_api_call" /\ ~lres.raised) =>
        /\ WellFormedRecord(lres.ret, lres.input)
        /\ logFile.kind = "object" =>
              /\ logFile.calls # << >>
              /\ logFile.calls[Len(logFile.calls)] = lres.ret

\* A reached state in which a call with two empty texts and no metadata has
\* been recorded with one token each way.
C22_Witness ==
    /\ lres.op = "log_api_call"
    /\ ~lres.raised
    /\ lres.input.input_len = 0
    /\ lres.input.output_len = 0
    /\ lres.input.metadata = << >>
    /\ lres.ret.total_tokens = 2
    /\ lres.ret.cost > 0
    /\ lres.ret.metadata = {}

\* The entries that stand before the key in the cache and match it the way
\* get_item matches.
EarlierMatches(entries, key) ==
    {i \in DOMAIN entries :
        /\ \/ IsSubstr(Lower(entries[i].key), key)
           \/ IsSubstr(key, Lower(entries[i].key))
        /\ \E k \in DOMAIN entries : entries[k].key = key /\ i < k}

\* C26 as stated: get_item(name) issued right after add_item(name, data)
\* returns a found entry, and that entry is data, the value just written.
C26_ReadYourWrite ==
    (cres.op = "get_item" /\ cres.written # << >>) =>
        /\ ~cres.raised
        /\ cres.ret = cres.written

\* C26: get_item(name) issued right after add_item(name, data) returns a
\* found entry; the entry is data when no key inserted before the key of
\* name contains it or is contained in it, and is the entry of the first
\* such key otherwise.
C26_ReadYourWriteUnlessEarlierMatch ==
    (cres.op = "get_item" /\ cres.written # << >>) =>
        LET entries == LoadCache(cres.before).entries
            key == Lower(cres.name)
            earlier == EarlierMatches(entries, key)
        IN  /\ ~cres.raised
            /\ cres.ret # << >>
            /\ key \in Keys(entries)
            /\ Lookup(entries, key) = cres.written[1]
            /\ earlier = {} => cres.ret = cres.written
            /\ earlier # {} =>
                  cres.ret =
                      <<entries[CHOOSE i \in earlier :
                                    \A j \in earlier : i <= j].data>>

\* A reached state in which get_item("egg") right after add_item("egg",
\* data) has returned the seeded entry of "eggs".
C26_Witness ==
    /\ cres.op = "get_item"
    /\ cres.written # << >>
    /\ ~cres.raised
    /\ cres.name = egg
    /\ cres.ret = <<EggsData>>
    /\ cres.written # <<EggsData>>

====
